---- MODULE Spec2Model ----
(***************************************************************************)
(* Date reconciliation of epipipeline (standardise/dates.py).              *)
(*                                                                         *)
(* The functions are pure, row-wise transformations.  Each one is modelled *)
(* as an operator computed the way the Python code computes it, and as an  *)
(* action that applies it to arguments drawn by Init.  Dates are calendar  *)
(* days (records year/month/day, time of day 00:00:00); pd.NaT and None    *)
(* are two distinct values.  An exception leaving the function is the      *)
(* outcome "raise".                                                        *)
(***************************************************************************)
EXTENDS Integers, Sequences, FiniteSets, TLC

VARIABLES
    fn,          \* the function the row-wise lambda calls
    pc,          \* "call" before the function runs, "done" after it returned or raised
    Date,        \* argument Date of fix_year_for_ll / check_date_bounds
    Year,        \* argument Year of fix_year_for_ll (0 models None: `if Year:` is false)
    limitYear,   \* argument limitYear of fix_year_for_ll (FALSE models None/False)
    earlyDate,   \* argument earlyDate of fix_two_dates
    lateDate,    \* argument lateDate of fix_two_dates
    tagDate,     \* argument tagDate (ceiling), None when not supplied
    minDate,     \* argument minDate (floor), None when not supplied
    days_diff,   \* argument days_diff of fix_two_dates
    today,       \* the day datetime.datetime.today() yields when the call runs
    ret,         \* the returned tuple: <<>> before the return, <<d>> or <<early, late>>
    raised,      \* TRUE when the call ended in an exception
    ret2,        \* the outcome of the second call of a function, NoCall before it
    row,         \* the three date columns of one record in standardise_ihip_v2
    parentID,    \* argument stateID / districtID / subdistID of a mapping function
    rawName,     \* argument districtName / subdistName / villageName
    threshold,   \* argument threshold (score_cutoff)
    childType,   \* argument childType of subdist_ulb_mapping
    df,          \* argument df: the region table, a sequence of rows
    scores       \* the scores the scorer gave to the candidate names in the call

\* the arguments of a call; a call does not assign them
argVars == <<fn, Date, Year, limitYear, earlyDate, lateDate, tagDate, minDate, days_diff>>

\* the arguments of a mapping function
geoArgs == <<parentID, rawName, threshold, childType, df>>

vars == <<fn, pc, Date, Year, limitYear, earlyDate, lateDate, tagDate, minDate,
          days_diff, today, ret, raised, ret2, row,
          parentID, rawName, threshold, childType, df, scores>>

----------------------------------------------------------------------------
(* Bounds of the model *)

\* days of the month 1..MaxDay are drawn for the pairs given to fix_two_dates
MaxDay == 13

\* days 1..ChainMaxDay and months 1..ChainMaxMonth are typed into the date
\* columns of the record given to standardise_ihip_v2
ChainMaxDay == 5

ChainMaxMonth == 4

\* the number of calendar years, from 2022 on, whose days are given to fix_year_for_ll
YearSpan == 5

----------------------------------------------------------------------------
(* Calendar: datetime.datetime *)

NaT == [nat |-> TRUE]
None == [none |-> TRUE]

mkdate(y, m, d) == [year |-> y, month |-> m, day |-> d]

isna(d) == d = NaT

is_leap(y) == (y % 4 = 0) /\ ((y % 100 # 0) \/ (y % 400 = 0))

days_in_month(y, m) ==
    IF m = 2 THEN (IF is_leap(y) THEN 29 ELSE 28)
    ELSE IF m \in {4, 6, 9, 11} THEN 30 ELSE 31

\* datetime.datetime(day=, month=, year=) raises ValueError unless this holds
valid_date(d) ==
    /\ d.month \in 1..12
    /\ d.day \in 1..days_in_month(d.year, d.month)

RECURSIVE days_before_month(_, _)
days_before_month(y, m) ==
    IF m <= 1 THEN 0 ELSE days_before_month(y, m - 1) + days_in_month(y, m - 1)

\* proleptic Gregorian ordinal, the integer behind date comparison and subtraction
toordinal(d) ==
    LET y == d.year - 1
    IN  365 * y + (y \div 4) - (y \div 100) + (y \div 400)
        + days_before_month(d.year, d.month) + d.day

\* (b - a) in days
delta_days(a, b) == toordinal(b) - toordinal(a)

----------------------------------------------------------------------------
(* Outcomes of a call *)

Return(t) == [kind |-> "return", val |-> t]
Raise == [kind |-> "raise", val |-> <<>>]
Skip == [kind |-> "skip", val |-> <<>>]
NoRow == [symptom |-> None, sample |-> None, result |-> None]
NoCall == [kind |-> "none", val |-> <<>>]

\* a tagDate / minDate that pd.to_datetime cannot parse, e.g. "not a date"
Malformed == [malformed |-> TRUE]

Ceiling_clock(tag, now) == now

\* `if tagDate: ... else: tagDate = datetime.datetime.today()`
Ceiling(tag, now) == IF tag # None THEN tag ELSE now

----------------------------------------------------------------------------
(* fix_two_dates *)

\* the bound of the re-check, pd.Timedelta(60, "d")
RecheckDays == 60

in_month_range_wide(x) == x \in 1..13

\* `x in range(1, 13)`
in_month_range(x) == x \in 1..12

\* datetime.datetime(day=d.month, month=d.day, year=d.year)
swap_day_month(d) == mkdate(d.year, d.day, d.month)

NeedsFix_always(delta, dd) == TRUE

NeedsFix_strict(delta, dd) == (dd <= delta) \/ (delta < 0)

\* line 175: (pd.Timedelta(days_diff, "d") < delta) | (delta < pd.Timedelta(0, "d"))
NeedsFix(delta, dd) == (dd < delta) \/ (delta < 0)

GapOK_nolower(a, b) == delta_days(a, b) <= RecheckDays

GapOK_abs(a, b) == (-RecheckDays <= delta_days(a, b)) /\ (delta_days(a, b) <= RecheckDays)

\* pd.Timedelta(0, "d") <= b - a <= pd.Timedelta(60, "d")
GapOK(a, b) == (0 <= delta_days(a, b)) /\ (delta_days(a, b) <= RecheckDays)

CeilingOK_off(d, tag) == TRUE

\* newDate <= tagDate
CeilingOK(d, tag) == toordinal(d) <= toordinal(tag)

\* newDate >= minDate
FloorOK(d, min) == toordinal(d) >= toordinal(min)

\* One heuristic block: `applies` is its if-condition, `swapped` the dates it
\* constructs, `cand` the pair it would return.  Inside the re-check the code
\* reads
\*     if minDate:
\*         if new >= minDate: return cand
\*         else: pass
\*     return cand
\* so the `pass` falls through to the unconditional return that follows.
\* A tagDate or minDate that could not be parsed is still the caller's value
\* (lines 159-160 and 169-170 build a message and drop it), and comparing a
\* datetime with it is a TypeError.
Heuristic(applies, swapped, cand, tag, min) ==
    IF ~applies THEN Skip
    ELSE IF \E d \in swapped : ~valid_date(d) THEN Raise
    ELSE IF tag = Malformed THEN Raise
    ELSE IF (\A d \in swapped : CeilingOK(d, tag)) /\ GapOK(cand[1], cand[2])
         THEN IF min = Malformed THEN Raise
              ELSE IF min # None /\ (\A d \in swapped : FloorOK(d, min))
                   THEN Return(cand)
                   ELSE Return(cand)
         ELSE Skip

\* 1: day of late = month of early
H1(e, l, tag, min) ==
    Heuristic((l.day = e.month) /\ in_month_range(l.day),
              {swap_day_month(l)}, <<e, swap_day_month(l)>>, tag, min)

\* 2: day of early = month of late
H2(e, l, tag, min) ==
    Heuristic((e.day = l.month) /\ in_month_range(e.day),
              {swap_day_month(e)}, <<swap_day_month(e), l>>, tag, min)

\* 3: both dates have the same day
H3(e, l, tag, min) ==
    Heuristic((e.day = l.day) /\ in_month_range(e.day),
              {swap_day_month(e), swap_day_month(l)},
              <<swap_day_month(e), swap_day_month(l)>>, tag, min)

\* 4: day of late - month of early = 1
H4(e, l, tag, min) ==
    Heuristic((l.day - e.month = 1) /\ in_month_range(l.day),
              {swap_day_month(l)}, <<e, swap_day_month(l)>>, tag, min)

\* 5: day of early - month of late = -1 (no month-range test)
H5(e, l, tag, min) ==
    Heuristic(e.day - l.month = -1,
              {swap_day_month(e)}, <<swap_day_month(e), l>>, tag, min)

HeuristicAt(i, e, l, tag, min) ==
    CASE i = 1 -> H1(e, l, tag, min)
      [] i = 2 -> H2(e, l, tag, min)
      [] i = 3 -> H3(e, l, tag, min)
      [] i = 4 -> H4(e, l, tag, min)
      [] i = 5 -> H5(e, l, tag, min)

\* the if-blocks run top to bottom; a block that does not return falls to the next
RECURSIVE TryFrom(_, _, _, _, _)
TryFrom(i, e, l, tag, min) ==
    IF i > 5 THEN Return(<<e, l>>)
    ELSE LET r == HeuristicAt(i, e, l, tag, min)
         IN  IF r.kind = "skip" THEN TryFrom(i + 1, e, l, tag, min) ELSE r

NaPair_both(e, l) == Return(<<NaT, NaT>>)

\* line 146: return (earlyDate, lateDate)
NaPair(e, l) == Return(<<e, l>>)

fix_two_dates(e, l, min, tag, dd, now) ==
    IF isna(e) \/ isna(l) THEN NaPair(e, l)
    ELSE LET ceiling == Ceiling(tag, now)
         IN  IF NeedsFix(delta_days(e, l), dd)
             THEN TryFrom(1, e, l, ceiling, min)
             ELSE Return(<<e, l>>)

----------------------------------------------------------------------------
(* fix_year_for_ll *)

\* lines 102-110: the target year.  `if Year:` is false for None (0 here) and
\* the current year is read from the clock; a year after the current one fails
\* the assert, and the except clause raises.
year_is_valid(Y, now) == (Y = 0) \/ (Y <= now.year)

current_year(Y, now) == IF Y # 0 THEN Y ELSE now.year

\* datetime.datetime(day=Date.day, month=Date.month, year=current_year):
\* ValueError when that day does not exist in the target year
replace_year(D, cy) ==
    IF valid_date(mkdate(cy, D.month, D.day))
    THEN Return(<<mkdate(cy, D.month, D.day)>>)
    ELSE Raise

\* line 122 negated: the December entry is left as is
DecemberKeeps(year_diff) == ~((year_diff < 0) \/ (year_diff > 1))

fix_year_for_ll(D, Y, lim, now) ==
    IF isna(D) THEN Return(<<NaT>>)
    ELSE IF ~year_is_valid(Y, now) THEN Raise
    ELSE LET cy == current_year(Y, now)
         IN  IF D.year # cy
             THEN IF (D.month # 12) \/ lim
                  THEN replace_year(D, cy)
                  ELSE IF DecemberKeeps(cy - D.year)
                       THEN Return(<<D>>)
                       ELSE replace_year(D, cy)
             ELSE Return(<<D>>)

----------------------------------------------------------------------------
(* check_date_bounds *)

BelowFloor_incl(D, min) == toordinal(D) <= toordinal(min)

\* line 292: Date < minDate
BelowFloor(D, min) == toordinal(D) < toordinal(min)

AboveCeiling_incl(D, tag) == toordinal(D) >= toordinal(tag)

\* line 299: Date > tagDate
AboveCeiling(D, tag) == toordinal(D) > toordinal(tag)

NaDate_raise(D) == Raise

\* line 271: return pd.NaT
NaDate(D) == Return(<<NaT>>)

\* lines 278-290: a tagDate or minDate that pd.to_datetime rejects reaches the
\* `raise(...)` of the except clause
check_date_bounds(D, tag, min, now) ==
    IF isna(D) THEN NaDate(D)
    ELSE IF tag = Malformed \/ min = Malformed THEN Raise
    ELSE LET ceiling == Ceiling(tag, now)
         IN  IF (min # None) /\ BelowFloor(D, min) THEN Return(<<NaT>>)
             ELSE IF AboveCeiling(D, ceiling) THEN Return(<<NaT>>)
             ELSE Return(<<D>>)

----------------------------------------------------------------------------
(* string_clean_dates *)

\* A raw cell is one of
\*   null   None, NaN, pd.NaT, pd.NA            str(): "None", "nan", "NaT", "<NA>"
\*   text   a string without any digit
\*   slash  the string "a/b/y"; y < 100 stands for a two-digit year
\*   iso    the string "y-m-d", or a Timestamp (str(): "y-m-d 00:00:00")
\*   digits the decimal digits of n, 4 or 5 of them, e.g. "45000"
RawNull == [kind |-> "null"]
RawText == [kind |-> "text"]
RawSlash(a, b, y) == [kind |-> "slash", a |-> a, b |-> b, y |-> y]
RawIso(y, m, d) == [kind |-> "iso", y |-> y, m |-> m, d |-> d]
RawDigits(n) == [kind |-> "digits", n |-> n]

\* line 60: re.search(r"[0-9]", str(Date))
has_digit(raw) == raw.kind \in {"slash", "iso", "digits"}

\* pd.to_datetime(str, format=fmt) for the four formats of line 65, in order;
\* %y takes exactly two digits (2000 + y for y <= 68), %Y exactly four
try_formats(raw) ==
    IF raw.kind # "slash" THEN Skip
    ELSE IF raw.y < 100
    THEN LET y == IF raw.y <= 68 THEN 2000 + raw.y ELSE 1900 + raw.y
         IN  IF valid_date(mkdate(y, raw.b, raw.a)) THEN Return(<<mkdate(y, raw.b, raw.a)>>)
             ELSE IF valid_date(mkdate(y, raw.a, raw.b)) THEN Return(<<mkdate(y, raw.a, raw.b)>>)
             ELSE Skip
    ELSE IF valid_date(mkdate(raw.y, raw.b, raw.a)) THEN Return(<<mkdate(raw.y, raw.b, raw.a)>>)
         ELSE IF valid_date(mkdate(raw.y, raw.a, raw.b)) THEN Return(<<mkdate(raw.y, raw.a, raw.b)>>)
         ELSE Skip

\* lines 76-79: pd.to_datetime(Date, format="mixed"), ValueError -> pd.NaT.
\* A slash string that no format took names no calendar day.  Four digits
\* are read as a year (1 January), which must lie within the range of
\* pd.Timestamp; five digits are no date (a year out of range).
parse_mixed(raw) ==
    IF raw.kind = "iso" /\ valid_date(mkdate(raw.y, raw.m, raw.d))
    THEN Return(<<mkdate(raw.y, raw.m, raw.d)>>)
    ELSE IF raw.kind = "digits" /\ raw.n \in 1678..2262
    THEN Return(<<mkdate(raw.n, 1, 1)>>)
    ELSE Return(<<NaT>>)

string_clean_dates(raw) ==
    IF ~has_digit(raw) THEN Return(<<NaT>>)
    ELSE LET r == try_formats(raw)
         IN  IF r.kind = "skip" THEN parse_mixed(raw) ELSE r

----------------------------------------------------------------------------
(* extract_symptom_date *)

\* a symptomDate cell that holds a number of days: the decimal digits of the
\* number, then nothing, " day", "day", " days" or "days"
DayCount(digits, suffix) == [kind |-> "days", digits |-> digits, suffix |-> suffix]

\* int() of a digit string
RECURSIVE int_of(_)
int_of(digits) ==
    IF digits = <<>> THEN 0
    ELSE 10 * int_of(SubSeq(digits, 1, Len(digits) - 1)) + digits[Len(digits)]

\* group 1 of re.search(r".*(\d+)\s?(day)?", s): the greedy `.*` gives back
\* only what `(\d+)` needs, one digit, the last one of the string
regex_group1(cell) == <<cell.digits[Len(cell.digits)]>>

\* the day before d
prev_day(d) ==
    IF d.day > 1 THEN mkdate(d.year, d.month, d.day - 1)
    ELSE IF d.month > 1 THEN mkdate(d.year, d.month - 1, days_in_month(d.year, d.month - 1))
    ELSE mkdate(d.year - 1, 12, 31)

\* d - pd.to_timedelta(n, unit='d')
RECURSIVE minus_days(_, _)
minus_days(d, n) == IF n = 0 THEN d ELSE minus_days(prev_day(d), n - 1)

\* symptomDate is a datetime (returned as it is), a day count, or a text
\* without digits (pd.to_datetime fails: NaT); a sampleDate that is not a
\* datetime and cannot be parsed gives (NaT, NaT)
extract_symptom_date(symptomDate, sampleDate) ==
    IF sampleDate = Malformed THEN Return(<<NaT, NaT>>)
    ELSE IF symptomDate = RawText \/ symptomDate = RawNull THEN Return(<<NaT, sampleDate>>)
    ELSE IF symptomDate.kind = "days"
    THEN Return(<<minus_days(sampleDate, int_of(regex_group1(symptomDate))), sampleDate>>)
    ELSE Return(<<symptomDate, sampleDate>>)

----------------------------------------------------------------------------
(* Region table and names (standardise/gis.py) *)

\* pd.NA as a name
NA == "<NA>"

\* a regionID "level_code"; "admin_0" is the unresolved sentinel
region_id(level, code) == [level |-> level, code |-> code]

admin_0 == region_id("admin", 0)

\* a row of regions.csv
region(id, name, parent) == [regionID |-> id, regionName |-> name, parentID |-> parent]

\* regionID.split("_")[0]
id_prefix(id) == id.level

\* regionID.startswith(p) for a type prefix p: no level name is a proper
\* prefix of another one, so the test compares the level
id_startswith(id, p) == id.level = p

\* settings["geo_prefixes"]
GeoPrefixes == {"state", "district", "subdistrict", "ulb", "village", "ward", "zone"}

\* str(name).title().strip() on the names of the model
title_strip(n) ==
    CASE n = "RAICHUR" -> "Raichur"
      [] n = "XYZQQQ" -> "Xyzqqq"
      [] n = NA -> "<Na>"
      [] OTHER -> n

\* re.sub(r"Gulbarga", "Kalaburagi", ...)
sub_gulbarga(n) == IF n = "Gulbarga" THEN "Kalaburagi" ELSE n

\* dist_mapping: re.sub(r"\(?\sU\)?$", " Urban", ...)
sub_urban_dist(n) == IF n = "Raichur U" THEN "Raichur Urban" ELSE n

\* subdist_ulb_mapping: re.sub(r'\(?\sU\)?$', "Urban", ...), the blank is consumed
sub_urban_subdist(n) == IF n = "Raichur U" THEN "RaichurUrban" ELSE n

\* gis.py 38-44; the Rural, Bijapur, C.H.Nagara and Bengaluru patterns match
\* none of the names of the model
dist_clean(n) == sub_urban_dist(sub_gulbarga(title_strip(n)))

\* gis.py 75-79
subdist_clean(n) == sub_urban_subdist(title_strip(n))

\* gis.py 130
village_clean(n) == title_strip(n)

\* df[cond] keeps the rows in table order
RECURSIVE filter_rows(_, _, _)
filter_rows(tbl, parent, types) ==
    IF tbl = <<>> THEN <<>>
    ELSE LET r == Head(tbl)
             rest == filter_rows(Tail(tbl), parent, types)
         IN  IF r.parentID = parent
                /\ (types = {} \/ \E p \in types : id_startswith(r.regionID, p))
             THEN <<r.regionName>> \o rest
             ELSE rest

\* df[cond]["regionName"].to_list(); types = {} when no childType filter applies
candidates(tbl, parent, types) == filter_rows(tbl, parent, types)

NoMatch == [found |-> FALSE, name |-> NA]

\* max(best_list, key=score): the first choice with the highest score
best_index(choices, sc, ok) ==
    CHOOSE i \in ok : \A j \in ok :
        sc[choices[j]] < sc[choices[i]] \/ (sc[choices[j]] = sc[choices[i]] /\ i <= j)

passes_cutoff_strict(score, cutoff) == score > cutoff

\* fuzzywuzzy extractWithoutOrder: `if score >= score_cutoff: yield`
passes_cutoff(score, cutoff) == score >= cutoff

\* process.extractOne(name, choices, score_cutoff=threshold); sc maps each
\* choice to the score the scorer gives it against the name
extractOne(choices, sc, cutoff) ==
    LET ok == {i \in 1..Len(choices) : passes_cutoff(sc[choices[i]], cutoff)}
    IN  IF ok = {} THEN NoMatch
        ELSE [found |-> TRUE, name |-> choices[best_index(choices, sc, ok)]]

\* df[(df["parentID"] == parent) & (df["regionName"] == name)]["regionID"].values[0]
code_of(tbl, parent, name) ==
    LET hits == {i \in 1..Len(tbl) : tbl[i].parentID = parent /\ tbl[i].regionName = name}
    IN  tbl[CHOOSE i \in hits : \A j \in hits : i <= j].regionID

NullGuard_parent(parent, n) == parent = admin_0

NullGuard_name(parent, n) == n = NA

\* `if parentID=="admin_0" or pd.isna(name):`
NullGuard(parent, n) == parent = admin_0 \/ n = NA

\* return (pd.NA, "admin_0")
ShortCircuit(n) == Return(<<NA, admin_0>>)

Unmatched_na(name) == Return(<<NA, admin_0>>)

\* no match: the cleaned name comes back with "admin_0"
Unmatched(name) == Return(<<name, admin_0>>)

Accepted_query(tbl, parent, matched, name) == Return(<<name, code_of(tbl, parent, matched)>>)

\* `name = match[0]`, then the code of that name
Accepted(tbl, parent, matched, name) == Return(<<matched, code_of(tbl, parent, matched)>>)

\* the part the three functions share: search the candidates, look the code up
match_and_code(tbl, parent, name, choices, sc, cutoff) ==
    LET match == extractOne(choices, sc, cutoff)
    IN  IF match.found
        THEN Accepted(tbl, parent, match.name, name)
        ELSE Unmatched(name)

dist_mapping(stateID, districtName, tbl, cutoff, sc) ==
    IF NullGuard(stateID, districtName) THEN ShortCircuit(districtName)
    ELSE match_and_code(tbl, stateID, dist_clean(districtName),
                        candidates(tbl, stateID, {}), sc, cutoff)

\* childType: [kind |-> "none" | "str" | "list", vals |-> the prefixes given]
NoChildType == [kind |-> "none", vals |-> <<>>]
ChildTypeStr(p) == [kind |-> "str", vals |-> <<p>>]
ChildTypeList(ps) == [kind |-> "list", vals |-> ps]

\* gis.py 82-98: a string must be one of the expected prefixes (ValueError
\* else); for a list, `childType.issubset(...)` is evaluated on a Python list,
\* which has no such attribute (AttributeError)
child_types(ct) ==
    IF ct.kind = "none" THEN Return({})
    ELSE IF ct.kind = "str"
         THEN IF ct.vals[1] \in GeoPrefixes THEN Return({ct.vals[1]}) ELSE Raise
         ELSE Raise

subdist_ulb_mapping(districtID, subdistName, tbl, cutoff, ct, sc) ==
    IF NullGuard(districtID, subdistName) THEN ShortCircuit(subdistName)
    ELSE LET types == child_types(ct)
         IN  IF types.kind = "raise" THEN Raise
             ELSE match_and_code(tbl, districtID, subdist_clean(subdistName),
                                 candidates(tbl, districtID, types.val), sc, cutoff)

village_ward_mapping(subdistID, villageName, tbl, cutoff, sc) ==
    IF NullGuard(subdistID, villageName) THEN ShortCircuit(villageName)
    ELSE match_and_code(tbl, subdistID, village_clean(villageName),
                        candidates(tbl, subdistID, {}), sc, cutoff)

\* the name and the candidate list the scorer is called with; <<>> when the
\* call returns or raises before the search
search_name(f, n) ==
    CASE f = "dist_mapping" -> dist_clean(n)
      [] f = "subdist_ulb_mapping" -> subdist_clean(n)
      [] f = "village_ward_mapping" -> village_clean(n)

search_choices(f, parent, n, tbl, ct) ==
    IF NullGuard(parent, n) THEN <<>>
    ELSE IF f = "subdist_ulb_mapping"
         THEN IF child_types(ct).kind = "raise" THEN <<>>
              ELSE candidates(tbl, parent, child_types(ct).val)
         ELSE candidates(tbl, parent, {})

----------------------------------------------------------------------------
(* Arguments *)

FixYears == {2023}

FixDates == {mkdate(y, m, d) : y \in FixYears, m \in 1..12, d \in 1..MaxDay}

FixTagDates == {None, mkdate(2023, 6, 10)}

FixMinDates == {None, mkdate(2023, 3, 5)}

DaysDiffs == {15, 30, 60}

FixToday == mkdate(2023, 12, 31)

\* every calendar day of YearSpan consecutive years, 29 February 2024 included
YearDates ==
    {dt \in {mkdate(y, m, d) : y \in 2022..(2022 + YearSpan - 1), m \in 1..12, d \in 1..31} :
        valid_date(dt)}

\* None (0), two years that are valid targets, one that may be post-dated
YearTargets == {0, 2024, 2025, 2026}

YearTodays == {mkdate(2025, 6, 15), mkdate(2026, 6, 15)}

BoundsTodays == {mkdate(2023, 9, 9), mkdate(2023, 12, 31)}

\* the cells of a date column: empty, text, "dd/mm/2023" over the grid, two
\* strings that are not dd/mm, "29/2/24", and two 2022 timestamps
ChainRaw ==
    {RawNull, RawText}
        \cup {RawSlash(a, b, 2023) : a \in 1..ChainMaxDay, b \in 1..ChainMaxMonth}
        \cup {RawSlash(3, 13, 2023), RawSlash(13, 13, 2023), RawSlash(29, 2, 24)}
        \cup {RawIso(2022, 12, 3), RawIso(2022, 2, 1)}

\* limit_year: None (0), or the reporting year
ChainLimitYears == {0, 2023}

ChainMinDates == {None, mkdate(2023, 2, 2)}

ChainMaxDates == {None, mkdate(2023, 4, 2)}

ChainToday == mkdate(2023, 12, 31)

\* dates of single calls: an inconsistent pair that one swap repairs
\* (5 Feb, 2 Jun), one whose repair lies between two clock readings
\* (1 Oct, 10 Mar), and the null date
CallDates ==
    {NaT, mkdate(2023, 2, 5), mkdate(2023, 6, 2), mkdate(2023, 10, 1), mkdate(2023, 3, 10)}

CallTagDates == {None, mkdate(2023, 6, 10), Malformed}

CallMinDates == {None, mkdate(2023, 3, 5), Malformed}

\* None (0), the year of the data, the year after
CallYears == {0, 2023, 2024}

\* readings of datetime.today() at which a call may run
CallTodays == {mkdate(2023, 9, 9), mkdate(2023, 12, 31), mkdate(2024, 6, 15)}

CallRaw ==
    {RawNull, RawText, RawSlash(5, 2, 2023), RawSlash(13, 13, 2023), RawIso(2023, 2, 5),
     RawDigits(2023), RawDigits(4500), RawDigits(45000)}

\* symptomDate cells: 5, 10, 12 and 30 days in three spellings, a text, a date
SymptomCells ==
    {DayCount(n, sfx) : n \in {<<5>>, <<1, 0>>, <<1, 2>>, <<3, 0>>}, sfx \in {"", " days", "day"}}
        \cup {RawText, [kind |-> "date", year |-> 2023, month |-> 2, day |-> 1]}

\* region ids of the table
country_1 == region_id("country", 1)
state_29 == region_id("state", 29)
district_546 == region_id("district", 546)
district_579 == region_id("district", 579)
subdistrict_5500 == region_id("subdistrict", 5500)
subdistrict_5501 == region_id("subdistrict", 5501)
ulb_1200 == region_id("ulb", 1200)
village_600 == region_id("village", 600)
ward_77 == region_id("ward", 77)

\* rows of regions.csv above and below the subdistrict / ULB level
UpperRows ==
    << region(state_29, "Karnataka", country_1),
       region(district_546, "Raichur", state_29),
       region(district_579, "Kalaburagi", state_29) >>

LowerRows ==
    << region(subdistrict_5501, "Manvi", district_546),
       region(village_600, "Yeragera", subdistrict_5500),
       region(ward_77, "Ward 1", ulb_1200) >>

\* Raichur district has a subdistrict and a ULB that are both named Raichur;
\* the two tables list them in the two possible orders
TableSubFirst ==
    UpperRows
        \o << region(subdistrict_5500, "Raichur", district_546),
              region(ulb_1200, "Raichur", district_546) >>
        \o LowerRows

TableUlbFirst ==
    UpperRows
        \o << region(ulb_1200, "Raichur", district_546),
              region(subdistrict_5500, "Raichur", district_546) >>
        \o LowerRows

\* a table that also holds a row whose parentID is the sentinel
TableOrphans ==
    TableSubFirst \o << region(region_id("subdistrict", 9999), "Raichur", admin_0) >>

GeoTables == {TableSubFirst, TableUlbFirst, TableOrphans}

GeoParents == {admin_0, state_29, district_546, district_579, subdistrict_5500, ulb_1200}

RawNames == {NA, "RAICHUR", "Gulbarga", "Raichur U", "XYZQQQ", "Yeragera"}

\* the defaults of the three functions (65, 65, 95)
Thresholds == {65, 95}

\* none, the two prefixes the orchestrator passes, a string that is not a
\* prefix, a list
ChildTypes ==
    {NoChildType, ChildTypeStr("subdistrict"), ChildTypeStr("ulb"), ChildTypeStr("taluk"),
     ChildTypeList(<<"subdistrict", "ulb">>)}

\* scores of the scorer (0..100) around the thresholds
ScoreValues == {0, 64, 65, 95, 100}

\* no mapping function is being called
GeoIdle ==
    /\ parentID = admin_0
    /\ rawName = NA
    /\ threshold = 0
    /\ childType = NoChildType
    /\ df = <<>>
    /\ scores = <<>>

----------------------------------------------------------------------------
(* Actions *)

Finish(r) ==
    /\ pc' = "done"
    /\ raised' = (r.kind = "raise")
    /\ ret' = r.val

\* the row-wise lambda of the orchestrator applies fix_two_dates to one pair
FixTwoDates ==
    /\ pc = "call"
    /\ fn = "fix_two_dates"
    /\ Finish(fix_two_dates(earlyDate, lateDate, minDate, tagDate, days_diff, today))
    /\ UNCHANGED <<argVars, today, ret2, row, geoArgs, scores>>

InitFix ==
    /\ fn = "fix_two_dates"
    /\ pc = "call"
    /\ Date = NaT
    /\ Year = 0
    /\ limitYear = FALSE
    /\ earlyDate \in FixDates \cup {NaT}
    /\ lateDate \in FixDates \cup {NaT}
    /\ tagDate \in FixTagDates
    /\ minDate \in FixMinDates
    /\ days_diff \in DaysDiffs
    /\ today = FixToday
    /\ ret = <<>>
    /\ raised = FALSE
    /\ ret2 = NoCall
    /\ row = NoRow
    /\ GeoIdle

\* fix_two_dates is applied, with the same bounds and days_diff, to the pair
\* the first call returned
FixTwoDatesAgain ==
    /\ pc = "done"
    /\ fn = "fix_two_dates"
    /\ ~raised
    /\ ret2' = fix_two_dates(ret[1], ret[2], minDate, tagDate, days_diff, today)
    /\ pc' = "done2"
    /\ UNCHANGED <<argVars, today, ret, raised, row, geoArgs, scores>>

NextFix == FixTwoDates

SpecFix == InitFix /\ [][NextFix]_vars

\* every calendar day of 2023
IdemDates ==
    {dt \in {mkdate(2023, m, d) : m \in 1..12, d \in 1..31} : valid_date(dt)}

\* a pair of dates of the whole year, each ceiling and days_diff, no floor
InitIdem ==
    /\ fn = "fix_two_dates"
    /\ pc = "call"
    /\ Date = NaT
    /\ Year = 0
    /\ limitYear = FALSE
    /\ earlyDate \in IdemDates
    /\ lateDate \in IdemDates
    /\ tagDate \in FixTagDates
    /\ minDate = None
    /\ days_diff \in DaysDiffs
    /\ today = FixToday
    /\ ret = <<>>
    /\ raised = FALSE
    /\ ret2 = NoCall
    /\ row = NoRow
    /\ GeoIdle

NextIdem == FixTwoDates \/ FixTwoDatesAgain

SpecIdem == InitIdem /\ [][NextIdem]_vars

\* the row-wise lambda of the orchestrator applies fix_year_for_ll to one date
FixYearForLL ==
    /\ pc = "call"
    /\ fn = "fix_year_for_ll"
    /\ Finish(fix_year_for_ll(Date, Year, limitYear, today))
    /\ UNCHANGED <<argVars, today, ret2, row, geoArgs, scores>>

InitYear ==
    /\ fn = "fix_year_for_ll"
    /\ pc = "call"
    /\ Date \in YearDates \cup {NaT}
    /\ Year \in YearTargets
    /\ limitYear \in BOOLEAN
    /\ earlyDate = NaT
    /\ lateDate = NaT
    /\ tagDate = None
    /\ minDate = None
    /\ days_diff = 30
    /\ today \in YearTodays
    /\ ret = <<>>
    /\ raised = FALSE
    /\ ret2 = NoCall
    /\ row = NoRow
    /\ GeoIdle

NextYear == FixYearForLL

SpecYear == InitYear /\ [][NextYear]_vars

\* the row-wise lambda of the orchestrator applies check_date_bounds to one date
CheckDateBounds ==
    /\ pc = "call"
    /\ fn = "check_date_bounds"
    /\ Finish(check_date_bounds(Date, tagDate, minDate, today))
    /\ UNCHANGED <<argVars, today, ret2, row, geoArgs, scores>>

InitBounds ==
    /\ fn = "check_date_bounds"
    /\ pc = "call"
    /\ Date \in FixDates \cup {NaT}
    /\ Year = 0
    /\ limitYear = FALSE
    /\ earlyDate = NaT
    /\ lateDate = NaT
    /\ tagDate \in FixTagDates
    /\ minDate \in FixMinDates
    /\ days_diff = 30
    /\ today \in BoundsTodays
    /\ ret = <<>>
    /\ raised = FALSE
    /\ ret2 = NoCall
    /\ row = NoRow
    /\ GeoIdle

\* the orchestrator applies check_date_bounds, with the same ceiling and
\* floor, to the value the first call returned
CheckDateBoundsAgain ==
    /\ pc = "done"
    /\ fn = "check_date_bounds"
    /\ ~raised
    /\ ret2' = check_date_bounds(ret[1], tagDate, minDate, today)
    /\ pc' = "done2"
    /\ UNCHANGED <<argVars, today, ret, raised, row, geoArgs, scores>>

NextBounds == CheckDateBounds \/ CheckDateBoundsAgain

SpecBounds == InitBounds /\ [][NextBounds]_vars

----------------------------------------------------------------------------
(* Single calls of every function, at some reading of the clock *)

\* the row-wise lambda applies extract_symptom_date to the symptom cell
\* (earlyDate) and the sample date (lateDate) of one record
ExtractSymptomDate ==
    /\ pc = "call"
    /\ fn = "extract_symptom_date"
    /\ Finish(extract_symptom_date(earlyDate, lateDate))
    /\ UNCHANGED <<argVars, today, ret2, row, geoArgs, scores>>

table_after_filtered(tbl, parent) == SelectSeq(tbl, LAMBDA r : r.parentID = parent)

\* the caller's table after a mapping call: df[...] selects into new frames,
\* no statement assigns into df or calls a method that changes it in place
table_after(tbl, parent) == tbl

StringCleanDates ==
    /\ pc = "call"
    /\ fn = "string_clean_dates"
    /\ Finish(string_clean_dates(Date))
    /\ UNCHANGED <<argVars, today, ret2, row, geoArgs, scores>>

Choices(seq) == {seq[i] : i \in 1..Len(seq)}

\* what the scorer may answer: a score for every choice, 100 for a choice
\* equal to the name
Scorings(name, choices) ==
    {sc \in [Choices(choices) -> ScoreValues] : \A c \in Choices(choices) : c = name => sc[c] = 100}

DistMapping ==
    /\ pc = "call"
    /\ fn = "dist_mapping"
    /\ \E sc \in Scorings(search_name(fn, rawName),
                          search_choices(fn, parentID, rawName, df, childType)) :
           /\ scores' = sc
           /\ Finish(dist_mapping(parentID, rawName, df, threshold, sc))
    /\ df' = table_after(df, parentID)
    /\ UNCHANGED <<argVars, today, ret2, row, parentID, rawName, threshold, childType>>

SubdistUlbMapping ==
    /\ pc = "call"
    /\ fn = "subdist_ulb_mapping"
    /\ \E sc \in Scorings(search_name(fn, rawName),
                          search_choices(fn, parentID, rawName, df, childType)) :
           /\ scores' = sc
           /\ Finish(subdist_ulb_mapping(parentID, rawName, df, threshold, childType, sc))
    /\ df' = table_after(df, parentID)
    /\ UNCHANGED <<argVars, today, ret2, row, parentID, rawName, threshold, childType>>

VillageWardMapping ==
    /\ pc = "call"
    /\ fn = "village_ward_mapping"
    /\ \E sc \in Scorings(search_name(fn, rawName),
                          search_choices(fn, parentID, rawName, df, childType)) :
           /\ scores' = sc
           /\ Finish(village_ward_mapping(parentID, rawName, df, threshold, sc))
    /\ df' = table_after(df, parentID)
    /\ UNCHANGED <<argVars, today, ret2, row, parentID, rawName, threshold, childType>>

ClockFns == {"fix_year_for_ll", "fix_two_dates", "check_date_bounds"}

\* the call `f` with the arguments of the state, run when the clock reads `now`
Outcome(f, now) ==
    CASE f = "fix_year_for_ll" -> fix_year_for_ll(Date, Year, limitYear, now)
      [] f = "fix_two_dates" ->
            fix_two_dates(earlyDate, lateDate, minDate, tagDate, days_diff, now)
      [] f = "check_date_bounds" -> check_date_bounds(Date, tagDate, minDate, now)

\* the same call is made again, with the same arguments, at a later time
RunLater ==
    /\ pc = "done"
    /\ fn \in ClockFns
    /\ \E t \in CallTodays :
           /\ toordinal(t) > toordinal(today)
           /\ today' = t
           /\ ret2' = Outcome(fn, t)
    /\ pc' = "done2"
    /\ UNCHANGED <<argVars, ret, raised, row, geoArgs, scores>>

DateIdle ==
    /\ Date = NaT
    /\ Year = 0
    /\ limitYear = FALSE
    /\ earlyDate = NaT
    /\ lateDate = NaT
    /\ tagDate = None
    /\ minDate = None
    /\ days_diff = 30

InitCalls ==
    /\ pc = "call"
    /\ today \in CallTodays
    /\ ret = <<>>
    /\ raised = FALSE
    /\ ret2 = NoCall
    /\ row = NoRow
    /\ \/ /\ fn = "fix_year_for_ll"
          /\ Date \in CallDates
          /\ Year \in CallYears
          /\ limitYear \in BOOLEAN
          /\ earlyDate = NaT
          /\ lateDate = NaT
          /\ tagDate = None
          /\ minDate = None
          /\ days_diff = 30
          /\ GeoIdle
       \/ /\ fn = "fix_two_dates"
          /\ Date = NaT
          /\ Year = 0
          /\ limitYear = FALSE
          /\ earlyDate \in CallDates
          /\ lateDate \in CallDates
          /\ tagDate \in CallTagDates
          /\ minDate \in CallMinDates
          /\ days_diff = 30
          /\ GeoIdle
       \/ /\ fn = "check_date_bounds"
          /\ Date \in CallDates
          /\ Year = 0
          /\ limitYear = FALSE
          /\ earlyDate = NaT
          /\ lateDate = NaT
          /\ tagDate \in CallTagDates
          /\ minDate \in CallMinDates
          /\ days_diff = 30
          /\ GeoIdle
       \/ /\ fn = "string_clean_dates"
          /\ Date \in CallRaw
          /\ Year = 0
          /\ limitYear = FALSE
          /\ earlyDate = NaT
          /\ lateDate = NaT
          /\ tagDate = None
          /\ minDate = None
          /\ days_diff = 30
          /\ GeoIdle
       \/ /\ fn = "extract_symptom_date"
          /\ Date = NaT
          /\ Year = 0
          /\ limitYear = FALSE
          /\ earlyDate \in SymptomCells
          /\ lateDate \in {mkdate(2023, 2, 5), mkdate(2023, 3, 10), Malformed}
          /\ tagDate = None
          /\ minDate = None
          /\ days_diff = 30
          /\ GeoIdle
       \/ /\ fn \in {"dist_mapping", "subdist_ulb_mapping", "village_ward_mapping"}
          /\ DateIdle
          /\ parentID \in GeoParents
          /\ rawName \in RawNames
          /\ threshold \in Thresholds
          /\ childType \in (IF fn = "subdist_ulb_mapping" THEN ChildTypes ELSE {NoChildType})
          /\ df \in GeoTables
          /\ scores = <<>>

NextCalls ==
    \/ FixYearForLL
    \/ FixTwoDates
    \/ CheckDateBounds
    \/ StringCleanDates
    \/ ExtractSymptomDate
    \/ DistMapping
    \/ SubdistUlbMapping
    \/ VillageWardMapping
    \/ RunLater

SpecCalls == InitCalls /\ [][NextCalls]_vars

----------------------------------------------------------------------------
(* standardise_ihip_v2, the date columns of one record *)

DateVars == {"symptom", "sample", "result"}

\* ihip.py 69-77: every date column is cleaned, then year-corrected; with
\* limit_year the call is fix_year_for_ll(Date=x, Year=limit_year, limitYear=True)
ChainClean ==
    /\ fn = "standardise_ihip_v2"
    /\ pc = "clean"
    /\ row' = [f \in DateVars |-> string_clean_dates(row[f]).val[1]]
    /\ pc' = "year"
    /\ UNCHANGED <<argVars, today, ret, raised, ret2, geoArgs, scores>>

ChainYear ==
    /\ fn = "standardise_ihip_v2"
    /\ pc = "year"
    /\ LET r == [f \in DateVars |-> fix_year_for_ll(row[f], Year, limitYear, today)]
       IN  IF \E f \in DateVars : r[f].kind = "raise"
           THEN /\ raised' = TRUE
                /\ pc' = "abort"
                /\ row' = row
           ELSE /\ raised' = raised
                /\ pc' = "fix1"
                /\ row' = [f \in DateVars |-> r[f].val[1]]
    /\ UNCHANGED <<argVars, today, ret, ret2, geoArgs, scores>>

AssignPair_swapped(rw, f1, f2, pair) == [rw EXCEPT ![f1] = pair[2], ![f2] = pair[1]]

\* df[f1], df[f2] = zip(*result)
AssignPair(rw, f1, f2, pair) == [rw EXCEPT ![f1] = pair[1], ![f2] = pair[2]]

StageAfter_twoPass(st) ==
    CASE st = "fix1" -> "fix2"
      [] st = "fix2" -> "bounds"
      [] st = "fix3" -> "bounds"
      [] st = "bounds" -> "done"

StageAfter_boundsEarly(st) ==
    CASE st = "fix1" -> "fix2"
      [] st = "fix2" -> "bounds"
      [] st = "bounds" -> "fix3"
      [] st = "fix3" -> "done"

\* ihip.py 81-154: symptom-sample, sample-result, symptom-sample again, then
\* check_date_bounds on every date column
StageAfter(st) ==
    CASE st = "fix1" -> "fix2"
      [] st = "fix2" -> "fix3"
      [] st = "fix3" -> "bounds"
      [] st = "bounds" -> "done"

\* one fix_two_dates pass over the columns f1, f2.  The four branches on
\* min_date / max_date pass the bounds that are set and leave the others at
\* their default None; days_diff is never passed (default 30).
ChainFixPair(st, f1, f2) ==
    /\ fn = "standardise_ihip_v2"
    /\ pc = st
    /\ LET r == fix_two_dates(row[f1], row[f2], minDate, tagDate, days_diff, today)
       IN  IF r.kind = "raise"
           THEN /\ raised' = TRUE
                /\ pc' = "abort"
                /\ row' = row
           ELSE /\ raised' = raised
                /\ pc' = StageAfter(st)
                /\ row' = AssignPair(row, f1, f2, r.val)
    /\ UNCHANGED <<argVars, today, ret, ret2, geoArgs, scores>>

ChainFix1 == ChainFixPair("fix1", "symptom", "sample")

ChainFix2 == ChainFixPair("fix2", "sample", "result")

ChainFix3 == ChainFixPair("fix3", "symptom", "sample")

ChainBounds ==
    /\ fn = "standardise_ihip_v2"
    /\ pc = "bounds"
    /\ row' = [f \in DateVars |-> check_date_bounds(row[f], tagDate, minDate, today).val[1]]
    /\ pc' = StageAfter("bounds")
    /\ UNCHANGED <<argVars, today, ret, raised, ret2, geoArgs, scores>>

InitChain ==
    /\ fn = "standardise_ihip_v2"
    /\ pc = "clean"
    /\ Date = NaT
    /\ Year \in ChainLimitYears
    /\ limitYear = (Year # 0)
    /\ earlyDate = NaT
    /\ lateDate = NaT
    /\ tagDate \in ChainMaxDates
    /\ minDate \in ChainMinDates
    /\ days_diff = 30
    /\ today = ChainToday
    /\ ret = <<>>
    /\ raised = FALSE
    /\ ret2 = NoCall
    /\ row \in [DateVars -> ChainRaw]
    /\ GeoIdle

NextChain ==
    \/ ChainClean
    \/ ChainYear
    \/ ChainFix1
    \/ ChainFix2
    \/ ChainFix3
    \/ ChainBounds

SpecChain == InitChain /\ [][NextChain]_vars

----------------------------------------------------------------------------
(* standardise_ihip_v2, the location columns of one record *)

\* pd.NA in an ID column
NA_ID == region_id(NA, 0)

\* lines 200-201: "", "-" and " " are forced to pd.NA
force_na(n) == IF n \in {"", "-", " "} THEN NA ELSE n

\* s.fillna(other) on one cell
fillna(x, other) == IF x = NA_ID THEN other ELSE x

\* line 232
hierarchy(id) ==
    IF id_startswith(id, "ulb") THEN "ULB"
    ELSE IF id_startswith(id, "subdistrict") THEN "Revenue"
    ELSE "admin_0"

\* line 235: admin5.ID, then admin4.ID, admin3.ID, admin2.ID, admin1.ID,
\* country.ID, each filling the nulls of the ones before; .str.split("_").str.get(0)
coarseness(r) ==
    LET id == fillna(fillna(fillna(fillna(fillna(r.admin5_ID, r.admin4_ID), r.admin3_ID),
                                   r.admin2_ID), r.admin1_ID), r.country_ID)
    IN  IF id = NA_ID THEN NA ELSE id_prefix(id)

\* a record as it enters the location block: the provided names, the ID
\* columns of the mapped levels still empty, state and country as the data
\* dictionary sets them
GeoRow(d, sd, u, v) ==
    [admin2_name |-> d, admin3_name |-> sd, ulb |-> u, admin5_name |-> v,
     admin2_ID |-> NA_ID, admin3_ID |-> NA_ID, ulb_id |-> NA_ID, admin5_ID |-> NA_ID,
     admin4_ID |-> NA_ID, admin1_ID |-> state_29, country_ID |-> country_1,
     hierarchy |-> NA, coarseness |-> NA]

RowDistricts == {NA, "-", "RAICHUR", "XYZQQQ"}

RowSubdists == {NA, "RAICHUR", "XYZQQQ"}

RowUlbs == {NA, " ", "RAICHUR"}

RowVillages == {NA, "Yeragera", "Ward 1", "XYZQQQ"}

\* lines 200-204: force to NA, then dist_mapping with the defaults
GeoDist ==
    /\ fn = "standardise_ihip_v2"
    /\ pc = "geo_dist"
    /\ LET r == [row EXCEPT !.admin2_name = force_na(@), !.admin3_name = force_na(@),
                            !.ulb = force_na(@), !.admin5_name = force_na(@)]
       IN  \E sc \in Scorings(dist_clean(r.admin2_name),
                              search_choices("dist_mapping", state_29, r.admin2_name, df, NoChildType)) :
               /\ scores' = sc
               /\ LET res == dist_mapping(state_29, r.admin2_name, df, 65, sc).val
                  IN  row' = [r EXCEPT !.admin2_name = res[1], !.admin2_ID = res[2]]
    /\ pc' = "geo_subdist"
    /\ UNCHANGED <<argVars, today, ret, raised, ret2, geoArgs>>

\* lines 211-215: admin3.name is nullified where a ulb is provided, then mapped
GeoSubdist ==
    /\ fn = "standardise_ihip_v2"
    /\ pc = "geo_subdist"
    /\ LET name == IF row.ulb # NA THEN NA ELSE row.admin3_name
           ct == ChildTypeStr("subdistrict")
       IN  \E sc \in Scorings(subdist_clean(name),
                              search_choices("subdist_ulb_mapping", row.admin2_ID, name, df, ct)) :
               /\ scores' = sc
               /\ LET res == subdist_ulb_mapping(row.admin2_ID, name, df, 65, ct, sc).val
                  IN  row' = [row EXCEPT !.admin3_name = res[1], !.admin3_ID = res[2]]
    /\ pc' = "geo_ulb"
    /\ UNCHANGED <<argVars, today, ret, raised, ret2, geoArgs>>

\* lines 218-222: the ulb is mapped; where the resulting ulb name is not null
\* it replaces admin3 (name and ID)
GeoUlb ==
    /\ fn = "standardise_ihip_v2"
    /\ pc = "geo_ulb"
    /\ LET ct == ChildTypeStr("ulb")
       IN  \E sc \in Scorings(subdist_clean(row.ulb),
                              search_choices("subdist_ulb_mapping", row.admin2_ID, row.ulb, df, ct)) :
               /\ scores' = sc
               /\ LET res == subdist_ulb_mapping(row.admin2_ID, row.ulb, df, 65, ct, sc).val
                  IN  row' = IF res[1] # NA
                             THEN [row EXCEPT !.ulb = res[1], !.ulb_id = res[2],
                                              !.admin3_name = res[1], !.admin3_ID = res[2]]
                             ELSE [row EXCEPT !.ulb = res[1], !.ulb_id = res[2]]
    /\ pc' = "geo_village"
    /\ UNCHANGED <<argVars, today, ret, raised, ret2, geoArgs>>

village_parent_district(r) == r.admin2_ID

\* line 228: subdistID=x["location.admin3.ID"]
village_parent(r) == r.admin3_ID

\* lines 228-229
GeoVillage ==
    /\ fn = "standardise_ihip_v2"
    /\ pc = "geo_village"
    /\ \E sc \in Scorings(village_clean(row.admin5_name),
                          search_choices("village_ward_mapping", village_parent(row), row.admin5_name,
                                         df, NoChildType)) :
           /\ scores' = sc
           /\ LET res == village_ward_mapping(village_parent(row), row.admin5_name, df, 95, sc).val
              IN  row' = [row EXCEPT !.admin5_name = res[1], !.admin5_ID = res[2]]
    /\ pc' = "geo_coarse"
    /\ UNCHANGED <<argVars, today, ret, raised, ret2, geoArgs>>

\* lines 232-239: hierarchy and coarseness, then fillna("admin_0") on the ID
\* columns
GeoCoarseness ==
    /\ fn = "standardise_ihip_v2"
    /\ pc = "geo_coarse"
    /\ row' = [row EXCEPT !.hierarchy = hierarchy(row.admin3_ID),
                          !.coarseness = coarseness(row),
                          !.admin2_ID = fillna(@, admin_0),
                          !.admin3_ID = fillna(@, admin_0),
                          !.admin4_ID = fillna(@, admin_0),
                          !.admin5_ID = fillna(@, admin_0)]
    /\ pc' = "done"
    /\ UNCHANGED <<argVars, today, ret, raised, ret2, geoArgs, scores>>

InitGeoRow ==
    /\ fn = "standardise_ihip_v2"
    /\ pc = "geo_dist"
    /\ DateIdle
    /\ today = ChainToday
    /\ ret = <<>>
    /\ raised = FALSE
    /\ ret2 = NoCall
    /\ row \in {GeoRow(d, sd, u, v) : d \in RowDistricts, sd \in RowSubdists,
                                      u \in RowUlbs, v \in RowVillages}
    /\ parentID = admin_0
    /\ rawName = NA
    /\ threshold = 0
    /\ childType = NoChildType
    /\ df \in GeoTables
    /\ scores = <<>>

NextGeoRow ==
    \/ GeoDist
    \/ GeoSubdist
    \/ GeoUlb
    \/ GeoVillage
    \/ GeoCoarseness

SpecGeoRow == InitGeoRow /\ [][NextGeoRow]_vars

----------------------------------------------------------------------------
(* Properties of fix_two_dates *)

FixDone == fn = "fix_two_dates" /\ pc = "done"

\* the call returned a pair that differs from its input
FixChanged == FixDone /\ ~raised /\ ret # <<earlyDate, lateDate>>

TypeOKFix == FixDone => (raised \/ Len(ret) = 2)

\* the ceiling in force: tagDate when supplied, else the current day
FixCeiling == IF tagDate # None THEN tagDate ELSE today

\* the dates of the returned pair that are not the dates given
ChangedDates ==
    {ret[i] : i \in {j \in 1..2 : ret[j] # <<earlyDate, lateDate>>[j]}}

\* C1: whenever fix_two_dates returns a pair that differs from its input and a
\* floor minDate was supplied, every date it changed is >= minDate.
C1_FloorRespected ==
    (FixChanged /\ minDate # None)
        => \A d \in ChangedDates : toordinal(d) >= toordinal(minDate)

\* C2: whenever fix_two_dates returns a pair that differs from its input, the
\* returned pair satisfies 0 <= lateDate - earlyDate <= 60 days, for every
\* ceiling, floor and days_diff.
C2_GapWithin60 ==
    FixChanged
        => /\ toordinal(ret[2]) - toordinal(ret[1]) >= 0
           /\ toordinal(ret[2]) - toordinal(ret[1]) <= 60

\* a changed pair whose input gap was negative
C2_Witness ==
    /\ FixChanged
    /\ toordinal(lateDate) < toordinal(earlyDate)
    /\ toordinal(ret[2]) >= toordinal(ret[1])

\* C3: whenever fix_two_dates returns a pair that differs from its input, every
\* date it changed is <= the ceiling (tagDate, or the current day by default).
C3_CeilingRespected ==
    FixChanged
        => \A d \in ChangedDates : toordinal(d) <= toordinal(FixCeiling)

\* a supplied ceiling, a late date beyond it, swapped to a date within it
C3_Witness ==
    /\ FixChanged
    /\ tagDate # None
    /\ ret[2] # lateDate
    /\ toordinal(lateDate) > toordinal(tagDate)
    /\ toordinal(ret[2]) <= toordinal(tagDate)

FixInconsistent ==
    /\ ~isna(earlyDate)
    /\ ~isna(lateDate)
    /\ \/ toordinal(lateDate) - toordinal(earlyDate) < 0
       \/ toordinal(lateDate) - toordinal(earlyDate) > days_diff

C5_Swap(d) == [year |-> d.year, month |-> d.day, day |-> d.month]

\* the conditions of the five heuristics, as the claim numbers them
C5_Applies(i) ==
    CASE i = 1 -> lateDate.day = earlyDate.month
      [] i = 2 -> earlyDate.day = lateDate.month
      [] i = 3 -> earlyDate.day = lateDate.day
      [] i = 4 -> lateDate.day - earlyDate.month = 1
      [] i = 5 -> earlyDate.day - lateDate.month = -1

\* the dates heuristic i swaps
C5_Swapped(i) ==
    CASE i \in {1, 4} -> {C5_Swap(lateDate)}
      [] i \in {2, 5} -> {C5_Swap(earlyDate)}
      [] i = 3 -> {C5_Swap(earlyDate), C5_Swap(lateDate)}

C5_Candidate(i) ==
    CASE i \in {1, 4} -> <<earlyDate, C5_Swap(lateDate)>>
      [] i \in {2, 5} -> <<C5_Swap(earlyDate), lateDate>>
      [] i = 3 -> <<C5_Swap(earlyDate), C5_Swap(lateDate)>>

\* the re-check: the swapped day is a month number, the new gap is within
\* [0, 60] days, no swapped date exceeds the ceiling or falls below the floor
C5_Passes(i) ==
    /\ C5_Applies(i)
    /\ \A d \in C5_Swapped(i) : d.month \in 1..12
    /\ toordinal(C5_Candidate(i)[2]) - toordinal(C5_Candidate(i)[1]) \in 0..60
    /\ \A d \in C5_Swapped(i) : toordinal(d) <= toordinal(FixCeiling)
    /\ minDate # None => \A d \in C5_Swapped(i) : toordinal(d) >= toordinal(minDate)

C5_Expected ==
    IF \E i \in 1..5 : C5_Passes(i)
    THEN C5_Candidate(CHOOSE i \in 1..5 : C5_Passes(i) /\ \A j \in 1..(i - 1) : ~C5_Passes(j))
    ELSE <<earlyDate, lateDate>>

\* C5: for an inconsistent non-null pair fix_two_dates returns the candidate of
\* the lowest-numbered heuristic whose condition applies and whose candidate
\* passes the re-check (gap in [0, 60], ceiling, floor); a failed heuristic does
\* not stop later ones; if none passes, the original pair is returned.
C5_LowestPassingHeuristic ==
    (FixDone /\ FixInconsistent) => (~raised /\ ret = C5_Expected)

\* C6 as stated: any pair returned after a change has a gap within [0, days_diff].
C6_GapWithinDaysDiff ==
    FixChanged
        => /\ toordinal(ret[2]) - toordinal(ret[1]) >= 0
           /\ toordinal(ret[2]) - toordinal(ret[1]) <= days_diff

\* C6 amended: for every days_diff (15, 30 and 60), a pair returned after a
\* change has a gap within [0, 60] days, the fixed bound of the re-check; the
\* gap may exceed days_diff when days_diff < 60.
C6_GapWithinRecheckBound ==
    \A g \in DaysDiffs :
        (FixChanged /\ days_diff = g)
            => (toordinal(ret[2]) - toordinal(ret[1])) \in 0..60

\* days_diff below 60 and a changed pair whose gap exceeds days_diff
C6_Witness ==
    /\ FixChanged
    /\ days_diff < 60
    /\ toordinal(ret[2]) - toordinal(ret[1]) > days_diff

\* C7: if earlyDate or lateDate is null, both members are returned exactly as
\* given, for every ceiling, floor and days_diff.
C7_NullPairUnchanged ==
    (FixDone /\ (earlyDate = NaT \/ lateDate = NaT))
        => (~raised /\ ret = <<earlyDate, lateDate>>)

\* one member null, the other a date that a heuristic would otherwise touch
C7_Witness ==
    /\ FixDone
    /\ earlyDate = NaT
    /\ lateDate # NaT
    /\ ret = <<NaT, lateDate>>

----------------------------------------------------------------------------
(* Properties of fix_year_for_ll *)

YearDone == fn = "fix_year_for_ll" /\ pc = "done"

\* the target year: Year when given, else the year of the current day
TargetYear == IF Year # 0 THEN Year ELSE today.year

\* a non-null date, a target year that is not post-dated, and a year to correct
YearToCorrect ==
    /\ YearDone
    /\ Date # NaT
    /\ TargetYear <= today.year
    /\ Date.year # TargetYear

\* C8: for every valid calendar date whose month is not December and whose
\* year differs from the target year, fix_year_for_ll raises no exception and
\* returns the date with year = target year and the same month and day,
\* 29 February included.
C8_NonDecemberYearReplaced ==
    (YearToCorrect /\ Date.month # 12)
        => /\ ~raised
           /\ ret = <<[year |-> TargetYear, month |-> Date.month, day |-> Date.day]>>

\* C9: for a non-null date whose year differs from the target, the original
\* year is kept if and only if the month is December, target - date.year = 1
\* and limitYear is not set; in every other case the result's year is the
\* target year.
C9_DecemberException ==
    YearToCorrect
        => /\ ~raised
           /\ IF Date.month = 12 /\ TargetYear - Date.year = 1 /\ ~limitYear
              THEN ret = <<Date>>
              ELSE ret[1].year = TargetYear

----------------------------------------------------------------------------
(* Properties of check_date_bounds *)

BoundsDone == fn = "check_date_bounds" /\ pc = "done"

\* C10: check_date_bounds returns null if and only if the date is null, or a
\* floor is supplied and date < floor, or date > ceiling; otherwise it returns
\* the date unchanged.  date = floor and date = ceiling are kept.
C10_BoundsInclusive ==
    BoundsDone
        => /\ ~raised
           /\ IF \/ Date = NaT
                 \/ (minDate # None /\ toordinal(Date) < toordinal(minDate))
                 \/ toordinal(Date) > toordinal(FixCeiling)
              THEN ret = <<NaT>>
              ELSE ret = <<Date>> /\ Date # NaT

\* a date equal to the supplied ceiling, with a floor supplied, is kept
C10_Witness ==
    /\ BoundsDone
    /\ minDate # None
    /\ tagDate # None
    /\ Date = tagDate
    /\ ret = <<Date>>

\* C11: applying check_date_bounds to its own result, with the same ceiling and
\* floor, gives that result again, for every date, ceiling and floor.
C11_BoundsIdempotent ==
    (fn = "check_date_bounds" /\ pc = "done2")
        => (ret2.kind = "return" /\ ret2.val = ret)

\* an out-of-bounds date: the first call nullified it, the second call ran on the null
C11_Witness ==
    /\ fn = "check_date_bounds"
    /\ pc = "done2"
    /\ Date # NaT
    /\ ret = <<NaT>>
    /\ ret2.val = <<NaT>>

----------------------------------------------------------------------------
(* Properties of the date chain of standardise_ihip_v2 *)

ChainDone == fn = "standardise_ihip_v2" /\ pc = "done"

\* C12: check_date_bounds runs after the three fix_two_dates calls, so every
\* non-null date of the output lies within [floor, ceiling] for the floor and
\* the ceiling that were supplied (the ceiling is the current day by default).
C12_OutputWithinBounds ==
    ChainDone
        => \A f \in DateVars :
               row[f] # NaT
                   => /\ minDate # None => toordinal(row[f]) >= toordinal(minDate)
                      /\ toordinal(row[f]) <= toordinal(FixCeiling)

\* floor and ceiling supplied; one date was nullified, another one is kept
C12_Witness ==
    /\ ChainDone
    /\ minDate # None
    /\ tagDate # None
    /\ row["symptom"] = NaT
    /\ row["sample"] # NaT
    /\ row["result"] = tagDate

\* C13: once a date column is null after a stage of the chain, it is null
\* after every later stage, whatever the other two dates are.
C13_NullStaysNull ==
    [][fn = "standardise_ihip_v2"
          => \A f \in DateVars : (row[f] = NaT) => (row'[f] = NaT)]_vars

\* the chain ran to its end with a null symptom date next to two dates that
\* fix_two_dates would otherwise reconcile
C13_Witness ==
    /\ ChainDone
    /\ row["symptom"] = NaT
    /\ row["sample"] # NaT
    /\ row["result"] # NaT

----------------------------------------------------------------------------
(* Properties of single calls *)

CallDone == pc \in {"done", "done2"}

GeoFns == {"dist_mapping", "subdist_ulb_mapping", "village_ward_mapping"}

\* the value the call is about is null
NullInput ==
    \/ fn \in {"fix_year_for_ll", "check_date_bounds"} /\ Date = NaT
    \/ fn = "string_clean_dates" /\ Date = RawNull
    \/ fn \in GeoFns /\ rawName = NA

\* C14: a call of fix_year_for_ll, check_date_bounds, string_clean_dates,
\* dist_mapping, subdist_ulb_mapping or village_ward_mapping whose date / name
\* is null raises nothing and returns the null date, respectively the
\* unresolved result (null name, admin_0), whatever the other arguments are
\* (post-dated Year, malformed ceiling or floor, invalid or list childType,
\* any parent id, threshold and table).
C14_NullPropagation ==
    (CallDone /\ NullInput) =>
        /\ ~raised
        /\ ret = (IF fn \in GeoFns THEN <<NA, admin_0>> ELSE <<NaT>>)

\* a null name with a resolved parent and a childType that raises for every
\* other name
C14_Witness ==
    /\ pc = "done"
    /\ fn = "subdist_ulb_mapping"
    /\ rawName = NA
    /\ parentID = district_546
    /\ childType.kind = "list"
    /\ ~raised
    /\ ret = <<NA, admin_0>>

\* the configuration of the call is defective: a ceiling or floor that is not
\* a date, or a target year after the current year
ConfigDefect ==
    \/ /\ fn \in {"fix_two_dates", "check_date_bounds"}
       /\ (tagDate = Malformed \/ minDate = Malformed)
    \/ /\ fn = "fix_year_for_ll"
       /\ Year # 0
       /\ Year > today.year

\* C15: a call of fix_two_dates or check_date_bounds with a malformed ceiling
\* or floor date, or of fix_year_for_ll with an invalid target year, ends in
\* an error, whatever the dates of the row are.
C15_ConfigDefectRaised ==
    (pc = "done" /\ fn \in ClockFns /\ ConfigDefect) => raised

\* the outcome of the first run, in the form RunLater records the second
FirstOutcome == [kind |-> IF raised THEN "raise" ELSE "return", val |-> ret]

\* C16 as stated: for fixed arguments a run of fix_year_for_ll, fix_two_dates
\* or check_date_bounds at a later wall-clock time gives the result (value or
\* error) of the first run.
C16_ClockIndependent ==
    (pc = "done2" /\ fn \in ClockFns) => ret2 = FirstOutcome

\* the caller supplied the time reference: the ceiling date of fix_two_dates
\* and check_date_bounds, a target year of fix_year_for_ll that has begun
\* (RunLater only moves the clock forward, so it had begun at the first run iff
\* ret is not an error)
TimeSupplied ==
    \/ fn \in {"fix_two_dates", "check_date_bounds"} /\ tagDate # None
    \/ fn = "fix_year_for_ll" /\ Year # 0 /\ ~raised

\* C16 amended: when the ceiling date is supplied (fix_two_dates,
\* check_date_bounds), or the target year is supplied and not after the
\* clock's year (fix_year_for_ll), a later run gives the result of the first.
C16_ClockIndependentWhenSupplied ==
    (pc = "done2" /\ fn \in ClockFns /\ TimeSupplied) => ret2 = FirstOutcome

\* check_date_bounds with a ceiling, for a date that lies between the two
\* clock readings (9 Sep and 31 Dec 2023): nullified by both runs
C16_Witness ==
    /\ pc = "done2"
    /\ fn = "check_date_bounds"
    /\ tagDate = mkdate(2023, 6, 10)
    /\ Date = mkdate(2023, 10, 1)
    /\ minDate = None
    /\ today = mkdate(2023, 12, 31)
    /\ ret = <<NaT>>
    /\ ret2 = Return(<<NaT>>)

----------------------------------------------------------------------------
(* Properties of the mapping functions *)

\* a mapping function has returned
GeoReturned == pc = "done" /\ fn \in GeoFns /\ ~raised

\* the best score over the candidate children reaches the threshold
BestScoreAccepted == \E c \in DOMAIN scores : scores[c] >= threshold

\* C17: the id returned by dist_mapping, subdist_ulb_mapping or
\* village_ward_mapping differs from admin_0 iff the parent id is not admin_0,
\* the name is not null and the best score over the candidate children is
\* >= the threshold; the id is then the id of a child of the parent whose name
\* is the returned name.
C17_IdIffAccepted ==
    GeoReturned =>
        LET accepted == parentID # admin_0 /\ rawName # NA /\ BestScoreAccepted
        IN  /\ (ret[2] # admin_0) <=> accepted
            /\ accepted =>
                   \E i \in 1..Len(df) :
                       /\ df[i].parentID = parentID
                       /\ df[i].regionName = ret[1]
                       /\ df[i].regionID = ret[2]

\* a village accepted with a best score equal to the threshold
C17_Witness ==
    /\ GeoReturned
    /\ fn = "village_ward_mapping"
    /\ parentID = subdistrict_5500
    /\ rawName = "XYZQQQ"
    /\ threshold = 95
    /\ scores["Yeragera"] = 95
    /\ ret = <<"Yeragera", village_600>>

\* C18: when subdist_ulb_mapping is called with one child-type prefix and
\* returns an id other than admin_0, the id starts with that prefix, also for
\* a table where a ULB and a subdistrict of the district share a name.
C18_IdHasChildType ==
    (GeoReturned /\ fn = "subdist_ulb_mapping" /\ childType.kind = "str" /\ ret[2] # admin_0)
        => ret[2].level = childType.vals[1]

----------------------------------------------------------------------------
(* Properties of the location columns of standardise_ihip_v2 *)

\* the ids of a record from the finest level to the coarsest
LevelIds(r) == <<r.admin5_ID, r.admin3_ID, r.admin2_ID, r.admin1_ID, r.country_ID>>

\* the finest id that is not the sentinel
FinestResolved(r) ==
    LET ids == LevelIds(r)
        ok == {i \in 1..Len(ids) : ids[i] # admin_0 /\ ids[i] # NA_ID}
    IN  ids[CHOOSE i \in ok : \A j \in ok : i <= j]

\* C19: the coarseness of a record is the type prefix of the finest id that is
\* not admin_0 among village, subdistrict/ULB, district, state and country; a
\* record with an unresolved village and a resolved subdistrict or district
\* gets the prefix of that level.
C19_CoarsenessOfFinestResolved ==
    (fn = "standardise_ihip_v2" /\ pc = "done") =>
        row.coarseness = FinestResolved(row).level

\* C20 as stated: the name a mapping function returns is null only when the
\* input name was null, also when the parent id is admin_0.
C20_NameNullOnlyIfInputNull ==
    GeoReturned => ((ret[1] = NA) => (rawName = NA))

\* C20 amended: the returned name is null only when the input name was null
\* or the parent id is admin_0; with a resolved parent a non-null input name
\* yields a non-null name (the matched name, or the cleaned name when nothing
\* matched).
C20_NameNullOnlyIfShortCircuit ==
    GeoReturned => ((ret[1] = NA) => (rawName = NA \/ parentID = admin_0))

\* a name that matches nothing under a resolved parent comes back cleaned
C20_Witness ==
    /\ GeoReturned
    /\ fn = "dist_mapping"
    /\ parentID = state_29
    /\ rawName = "XYZQQQ"
    /\ ret = <<"Xyzqqq", admin_0>>

\* C21: when the parent id passed to dist_mapping, subdist_ulb_mapping or
\* village_ward_mapping is admin_0, the call returns the id admin_0 and the
\* scorer is given no candidate (nothing is collected or compared), for every
\* name and every table, also one with rows under admin_0.
C21_UnresolvedParentShortCircuit ==
    (pc = "done" /\ fn \in GeoFns /\ parentID = admin_0) =>
        /\ ~raised
        /\ ret[2] = admin_0
        /\ DOMAIN scores = {}

\* a non-null name under admin_0, in the table that has a row named like it
\* under admin_0
C21_Witness ==
    /\ pc = "done"
    /\ fn = "subdist_ulb_mapping"
    /\ parentID = admin_0
    /\ rawName = "RAICHUR"
    /\ df = TableOrphans
    /\ childType = ChildTypeStr("subdistrict")
    /\ ret = <<NA, admin_0>>

C23_PrefixListReturns ==
    (pc = "done" /\ fn = "subdist_ulb_mapping" /\ childType.kind = "list"
        /\ (\A i \in 1..Len(childType.vals) : childType.vals[i] \in GeoPrefixes)
        /\ parentID # admin_0 /\ rawName # NA)
        => ~raised

----------------------------------------------------------------------------
(* Properties of string_clean_dates *)

\* the epoch of spreadsheet serials
SerialEpoch == mkdate(1899, 12, 30)

\* C24: a string of 4 or 5 digits is parsed as the day that many days after
\* 1899-12-30.
C24_SerialFromEpoch ==
    (pc = "done" /\ fn = "string_clean_dates" /\ Date.kind = "digits") =>
        /\ ~raised
        /\ ret[1] # NaT
        /\ toordinal(ret[1]) = toordinal(SerialEpoch) + Date.n

----------------------------------------------------------------------------
(* Frame of the mapping functions *)

\* C25: dist_mapping, subdist_ulb_mapping and village_ward_mapping leave the
\* region table as it was, whatever the input and the outcome.
C25_TableUnchanged == [][(fn \in GeoFns) => (df' = df)]_vars

\* an accepted match has been returned from the table
C25_Witness ==
    /\ GeoReturned
    /\ fn = "dist_mapping"
    /\ parentID = state_29
    /\ ret = <<"Raichur", district_546>>
    /\ df = TableUlbFirst

----------------------------------------------------------------------------
(* The three passes of standardise_ihip_v2 *)

\* C26: the chain is exactly three fix_two_dates calls, on symptom-sample,
\* sample-result and symptom-sample, each made once and followed by the next
\* (or by the error of the call); it does not iterate further.  That the
\* result is no fixed point is the state C26_Witness.
C26_ThreePasses ==
    [][(fn = "standardise_ihip_v2") =>
          /\ (pc = "fix1") => (pc' \in {"fix2", "abort"} /\ row'.result = row.result)
          /\ (pc = "fix2") => (pc' \in {"fix3", "abort"} /\ row'.symptom = row.symptom)
          /\ (pc = "fix3") => (pc' \in {"bounds", "abort"} /\ row'.result = row.result)
          /\ (pc' \in {"fix2", "fix3"}) => (pc \in {"fix1", "fix2"})]_vars

\* a further fix_two_dates call on the pair f1, f2 of the record would change it
WouldChange(f1, f2) ==
    LET r == fix_two_dates(row[f1], row[f2], minDate, tagDate, days_diff, today)
    IN  r.kind = "return" /\ r.val # <<row[f1], row[f2]>>

\* after the three calls all three dates are non-null and a fourth call, on
\* sample-result or on symptom-sample, still changes a date
C26_Witness ==
    /\ fn = "standardise_ihip_v2"
    /\ pc = "bounds"
    /\ \A f \in DateVars : row[f] # NaT
    /\ WouldChange("sample", "result") \/ WouldChange("symptom", "sample")

----------------------------------------------------------------------------
(* Properties of extract_symptom_date *)

\* C27: for a symptomDate that holds a number N of one or more digits,
\* optionally followed by day / days, and a valid sampleDate,
\* extract_symptom_date returns (sampleDate - N days, sampleDate).
C27_DayCountSubtracted ==
    (pc = "done" /\ fn = "extract_symptom_date" /\ earlyDate.kind = "days"
        /\ lateDate # Malformed) =>
        /\ ~raised
        /\ ret[2] = lateDate
        /\ ret[1] # NaT
        /\ delta_days(ret[1], lateDate) = int_of(earlyDate.digits)

----------------------------------------------------------------------------
(* Algebraic properties of fix_two_dates *)

\* C28: for every non-null pair and every days_diff, applying fix_two_dates
\* to its own result, with the same ceiling and floor, returns that result.
C28_FixIdempotent ==
    (fn = "fix_two_dates" /\ pc = "done2" /\ earlyDate # NaT /\ lateDate # NaT) =>
        ret2 = Return(ret)

\* C28 amended: with days_diff = 30 (the default) or 60, applying
\* fix_two_dates to its own result returns that result, also when the first
\* call accepted a fix with a gap of 31 to 60 days.
C28_FixIdempotentFrom30 ==
    (fn = "fix_two_dates" /\ pc = "done2" /\ earlyDate # NaT /\ lateDate # NaT
        /\ days_diff >= 30) =>
        ret2 = Return(ret)

\* days_diff = 30: the first call accepted a fix whose gap exceeds 30 days,
\* and the second call, which tries the heuristics again, returns it
C28_Witness ==
    /\ fn = "fix_two_dates"
    /\ pc = "done2"
    /\ days_diff = 30
    /\ ret # <<earlyDate, lateDate>>
    /\ delta_days(ret[1], ret[2]) > 30
    /\ ret2 = Return(ret)

\* C29: for every pair of valid non-null dates fix_two_dates raises nothing,
\* and each date it returns is the input date or the input date with day and
\* month exchanged, in the same year and itself a calendar date with day and
\* month at most 12.
C29_SwapsTotal ==
    (fn = "fix_two_dates" /\ pc = "done" /\ earlyDate # NaT /\ lateDate # NaT) =>
        /\ ~raised
        /\ ret[1] \in {earlyDate, swap_day_month(earlyDate)}
        /\ ret[2] \in {lateDate, swap_day_month(lateDate)}
        /\ \A i \in 1..2 :
               ret[i] # <<earlyDate, lateDate>>[i] =>
                   /\ ret[i].day <= 12
                   /\ ret[i].month <= 12
                   /\ valid_date(ret[i])

\* heuristic 5, the one without a month-range test, has swapped the early
\* date: (7 Oct, 9 Aug) becomes (10 Jul, 9 Aug)
C29_Witness ==
    /\ fn = "fix_two_dates"
    /\ pc = "done"
    /\ earlyDate = mkdate(2023, 10, 7)
    /\ lateDate = mkdate(2023, 8, 9)
    /\ ret = <<mkdate(2023, 7, 10), mkdate(2023, 8, 9)>>

----------------------------------------------------------------------------
(* The resolved levels of a record *)

\* id is the regionID of a row of the table whose parentID is parent
ChildOf(id, parent) ==
    \E i \in 1..Len(df) : df[i].regionID = id /\ df[i].parentID = parent

\* C30: in a record that leaves the location block of standardise_ihip_v2, a
\* village/ward id other than admin_0 implies a subdistrict/ULB id other than
\* admin_0, which implies a district id other than admin_0, and each resolved
\* id is, in the region table, a child of the record's id one level up.
C30_ResolvedChain ==
    (fn = "standardise_ihip_v2" /\ pc = "done") =>
        /\ (row.admin5_ID # admin_0) => (row.admin3_ID # admin_0)
        /\ (row.admin3_ID # admin_0) => (row.admin2_ID # admin_0)
        /\ (row.admin5_ID # admin_0) => ChildOf(row.admin5_ID, row.admin3_ID)
        /\ (row.admin3_ID # admin_0) => ChildOf(row.admin3_ID, row.admin2_ID)
        /\ (row.admin2_ID # admin_0) => ChildOf(row.admin2_ID, row.admin1_ID)

\* a record resolved down to a ward of the ULB
C30_Witness ==
    /\ fn = "standardise_ihip_v2"
    /\ pc = "done"
    /\ row.admin2_ID = district_546
    /\ row.admin3_ID = ulb_1200
    /\ row.admin5_ID = ward_77

====
